---- MODULE Spec2Model ----
(***************************************************************************)
(* Model of src/main.py: the WhatsApp chat link extractor.                 *)
(*                                                                         *)
(* main() reads the transcript, parses it line by line into url tasks      *)
(* (all_urls) and parse failures (failed_lines), fetches title and         *)
(* description of every task one after the other, and sorts the entries    *)
(* by (Date, Time) for the export.                                         *)
(*                                                                         *)
(* Text is a sequence of tokens (strings); the token " " is whitespace.    *)
(* A URL is the sequence of its lexical tokens, for example                *)
(* <<"https:", "//", "a.com", "/", "x", ".">>.                             *)
(***************************************************************************)
EXTENDS Integers, Sequences, FiniteSets, TLC

VARIABLES lines, pc, line_num, all_urls, failed_lines, i, inflight, entries,
          df_sorted, gets, answers

vars == <<lines, pc, line_num, all_urls, failed_lines, i, inflight, entries,
          df_sorted, gets, answers>>

\* ------------------------------------------------------------------ bounds
MaxLines == 2
MaxFetchLines == 1
MaxK == 2

\* --------------------------------------------------------- generic helpers
Min(a, b) == IF a <= b THEN a ELSE b

Range(s) == {s[n] : n \in 1..Len(s)}

SeqsUpTo(S, n) == UNION {[1..m -> S] : m \in 0..n}

Repeat(tok, n) == [k \in 1..n |-> tok]

\* ------------------------------------------------------------ text helpers
\* str.strip(): leading and trailing whitespace removed
RECURSIVE lstrip_ws(_)
lstrip_ws(s) == IF s # <<>> /\ Head(s) = " " THEN lstrip_ws(Tail(s)) ELSE s

RECURSIVE rstrip_ws(_)
rstrip_ws(s) ==
    IF s # <<>> /\ s[Len(s)] = " " THEN rstrip_ws(SubSeq(s, 1, Len(s) - 1)) ELSE s

strip(s) == rstrip_ws(lstrip_ws(s))

\* s[:n]
Slice(s, n) == SubSeq(s, 1, Min(Len(s), n))

\* ------------------------------------------------------------------- URLs
PUNCT == {".", ",", ";", "!", "?"}

\* variant of rstrip: only the last character is removed
rstrip_one(url) ==
    IF url # <<>> /\ url[Len(url)] \in PUNCT THEN SubSeq(url, 1, Len(url) - 1) ELSE url

\* url.rstrip(".,;!?"): every trailing character of the set is removed
RECURSIVE rstrip(_)
rstrip(url) ==
    IF url # <<>> /\ url[Len(url)] \in PUNCT
    THEN rstrip(SubSeq(url, 1, Len(url) - 1))
    ELSE url

\* urlparse(url): the scheme is the leading "<scheme>:" token, the netloc
\* is what follows "//" up to the first "/", "?" or "#"
NetlocEnd(url) ==
    LET stops == {n \in 3..Len(url) : url[n] \in {"/", "?", "#"}}
    IN  IF stops = {} THEN Len(url) ELSE (CHOOSE n \in stops : \A m \in stops : n <= m) - 1

urlparse(url) ==
    [scheme |-> IF url # <<>> /\ url[1] \in {"http:", "https:"} THEN url[1] ELSE "",
     netloc |-> IF Len(url) >= 2 /\ url[2] = "//" THEN SubSeq(url, 3, NetlocEnd(url)) ELSE <<>>]

\* line 109: not parsed.scheme or not parsed.netloc
is_invalid(url) ==
    LET parsed == urlparse(url) IN parsed.scheme = "" \/ parsed.netloc = <<>>

U1 == <<"https:", "//", "a.com">>
U1p == <<"https:", "//", "a.com", ".", ",">>
U2 == <<"http:", "//", "b.org", "/", "x">>
Uinv == <<"https:", "//", "?">>

\* ------------------------------------------------------------- timestamps
\* a date token d1/d2/y with yd digits of year; a time token h:m, the
\* whitespace sep between the minutes and the meridiem marker mer
\* ("none": no marker)
Date(d1, d2, yd, y) == [d1 |-> d1, d2 |-> d2, yd |-> yd, y |-> y]
Time(h, m, sep, mer) == [h |-> h, m |-> m, sep |-> sep, mer |-> mer]

\* clean_time_string: unicode spaces become spaces, runs of whitespace
\* collapse to one space, a space is inserted before a glued AM/PM
clean_time_string(time_str) ==
    [time_str EXCEPT !.sep = IF time_str.mer = "none" THEN "" ELSE " "]

lower(mer) ==
    CASE mer = "AM" -> "am"
      [] mer = "PM" -> "pm"
      [] OTHER -> mer

IsLeap(y) == (y % 4 = 0 /\ y % 100 # 0) \/ y % 400 = 0

DaysInMonth(y, mo) ==
    CASE mo \in {4, 6, 9, 11} -> 30
      [] mo = 2 -> IF IsLeap(y) THEN 29 ELSE 28
      [] OTHER -> 31

ValueError == [ok |-> FALSE]

\* the formats of datetime_formats, in order
Fmt(dayfirst, ydigits, clock) == [dayfirst |-> dayfirst, ydigits |-> ydigits, clock |-> clock]

datetime_formats ==
    << Fmt(TRUE, 2, 12), Fmt(TRUE, 4, 12), Fmt(FALSE, 2, 12), Fmt(FALSE, 4, 12),
       Fmt(TRUE, 2, 24), Fmt(TRUE, 4, 24) >>

\* datetime.strptime(f"{date_str} {time_str}".lower(), fmt)
strptime(date_str, time_str, fmt) ==
    LET day   == IF fmt.dayfirst THEN date_str.d1 ELSE date_str.d2
        month == IF fmt.dayfirst THEN date_str.d2 ELSE date_str.d1
        year  == IF fmt.ydigits = 2
                 THEN (IF date_str.y < 69 THEN 2000 + date_str.y ELSE 1900 + date_str.y)
                 ELSE date_str.y
        mer   == lower(time_str.mer)
        dateOk == /\ date_str.yd = fmt.ydigits
                  /\ year >= 1
                  /\ month \in 1..12
                  /\ day >= 1
                  /\ day <= DaysInMonth(year, month)
        timeOk == IF fmt.clock = 12
                  THEN /\ mer \in {"am", "pm"}
                       /\ time_str.sep # ""
                       /\ time_str.h \in 1..12
                       /\ time_str.m \in 0..59
                  ELSE /\ mer = "none"
                       /\ time_str.h \in 0..23
                       /\ time_str.m \in 0..59
        hour  == IF fmt.clock = 12
                 THEN (time_str.h % 12) + (IF mer = "pm" THEN 12 ELSE 0)
                 ELSE time_str.h
    IN  IF dateOk /\ timeOk
        THEN [ok |-> TRUE, date |-> <<year, month, day>>, time |-> <<hour, time_str.m>>]
        ELSE ValueError

\* re.search(r"(\d{1,2}:\d{2})", time_str).group(1): the bare HH:MM
time_match(time_str) == Time(time_str.h, time_str.m, "", "none")

RECURSIVE try_formats(_, _, _)
try_formats(date_str, time_str, n) ==
    IF n > Len(datetime_formats)
    THEN ValueError
    ELSE LET r == strptime(date_str, time_str, datetime_formats[n])
         IN  IF r.ok THEN r ELSE try_formats(date_str, time_str, n + 1)

\* parse_datetime: the formats in order, then the HH:MM fallback, then
\* ValueError("Unable to parse datetime: ...")
parse_datetime(date_str, time_str) ==
    LET cleaned == clean_time_string(time_str)
        r == try_formats(date_str, cleaned, 1)
        fallback == strptime(date_str, time_match(cleaned), Fmt(TRUE, 2, 24))
    IN  IF r.ok THEN r
        ELSE IF fallback.ok THEN fallback
        ELSE [ok |-> FALSE,
              error |-> [msg |-> "Unable to parse datetime", date |-> date_str, time |-> cleaned]]

\* ----------------------------------------------------------- transcript lines
\* A raw line: shape "blank" (empty or whitespace only), "text" (no leading
\* date, a continuation line) or "msg" ("<date>, <time> - <sender>: <message>");
\* links are the URLs of the message in order, text/len name the raw text
\* and its length in characters
Line(shape, date, time, sender, links, text, len) ==
    [shape |-> shape, date |-> date, time |-> time, sender |-> sender,
     links |-> links, text |-> text, len |-> len]

NoDate == Date(0, 0, 0, 0)
NoTime == Time(0, 0, "", "none")
BadDate == Date(32, 13, 2, 99)
BadTime == Time(25, 61, " ", "pm")

LBlank   == Line("blank", NoDate, NoTime, "", <<>>, "blank", 3)
LText    == Line("text", NoDate, NoTime, "", <<U2>>, "text", 30)
LAlice   == Line("msg", Date(1, 2, 2, 23), Time(9, 5, " ", "am"), "Alice", <<U1>>, "alice", 60)
LBob     == Line("msg", Date(31, 12, 4, 2022), Time(11, 30, "nnbsp", "PM"), "Bob",
                 <<U1, U1p>>, "bob", 120)
LCarol   == Line("msg", Date(2, 13, 2, 25), Time(1, 5, "", "pm"), "Carol", <<U2>>, "carol", 101)
LDave    == Line("msg", Date(1, 2, 2, 23), Time(13, 5, " ", "pm"), "Dave", <<Uinv>>, "dave", 100)
LBadUrl  == Line("msg", BadDate, BadTime, "Erin", <<U1>>, "erin", 130)
LBadNo   == Line("msg", BadDate, BadTime, "Erin", <<>>, "erin-nolink", 40)
LNoLink  == Line("msg", Date(1, 2, 2, 23), Time(9, 5, " ", "am"), "Alice", <<>>, "alice-nolink", 40)
L24h     == Line("msg", Date(1, 2, 2, 23), Time(14, 5, "", "none"), "Frank", <<U1>>, "frank", 50)

\* the lines a transcript of the pipeline model is made of
LineSet == {LBlank, LText, LAlice, LBob, LCarol, LDave, LBadUrl, LBadNo, LNoLink, L24h}

\* the lines a transcript of the fair pipeline model is made of
FairLineSet == {LAlice, LBob, LDave}

\* the lines a transcript of the fetcher model is made of
FetchLineSet == {LAlice, LCarol, LDave}

\* line.strip()
strip_line(line) == IF line.shape = "blank" THEN [line EXCEPT !.len = 0] ELSE line

\* re.match(DATE_PATTERN, line): date, time, a mandatory am/pm marker,
\* "-", sender, ":", message
re_match(line) == line.shape = "msg" /\ line.time.mer \in {"am", "pm", "AM", "PM"}

\* re.findall(URL_PATTERN, message)
findall(line) == line.links

\* variant of has_links: the timestamp is parsed for every matching line
has_links_always(links) == TRUE

\* line 195: if links
has_links(links) == links # <<>>

\* line[:100] + "..." if len(line) > 100 else line
truncate(line) ==
    IF line.len > 100
    THEN [text |-> line.text, keep |-> 100, ellipsis |-> TRUE]
    ELSE [text |-> line.text, keep |-> line.len, ellipsis |-> FALSE]

\* lines 199-210: one url task per link of the line
url_tasks(line, num, dt) ==
    [n \in 1..Len(findall(line)) |->
        [url |-> findall(line)[n], sender |-> line.sender, datetime |-> dt,
         line_num |-> num, original_line |-> truncate(line)]]

\* variant of record_failure: the ValueError is swallowed
record_failure_swallowed(failed, line, num, error) == failed

\* lines 212-219: the failure record of a line whose timestamp did not parse
record_failure(failed, line, num, error) ==
    Append(failed, [line_num |-> num, error |-> error, line |-> truncate(line)])

\* ------------------------------------------------------------ network answers
\* a parsed document: the title element and its .string, the og:title meta
\* tag, and the three description meta tags
NoTag == [present |-> FALSE, has_content |-> FALSE, content |-> <<>>]
Tag(content) == [present |-> TRUE, has_content |-> TRUE, content |-> content]
BareTag == [present |-> TRUE, has_content |-> FALSE, content |-> <<>>]

TitleElems ==
    { [present |-> FALSE, has_string |-> FALSE, string |-> <<>>],
      [present |-> TRUE, has_string |-> FALSE, string |-> <<>>],
      [present |-> TRUE, has_string |-> TRUE, string |-> <<" ", " ">>],
      [present |-> TRUE, has_string |-> TRUE, string |-> <<" ", "T", " ">>] }

OgTitles == {NoTag, BareTag, Tag(<<"OG", " ">>)}

DescTags ==
    { [description |-> NoTag, og |-> NoTag, Description |-> NoTag],
      [description |-> Tag(<<" ", "D">>), og |-> Tag(<<"OD">>), Description |-> NoTag],
      [description |-> BareTag, og |-> Tag(<<"OD">>), Description |-> NoTag],
      [description |-> NoTag, og |-> NoTag, Description |-> Tag(<<" ">>)] }

Docs == [title : TitleElems, og_title : OgTitles, desc : DescTags]

DocA == [title |-> [present |-> TRUE, has_string |-> TRUE, string |-> <<" ", "T", " ">>],
         og_title |-> NoTag,
         desc |-> [description |-> Tag(<<" ", "D">>), og |-> Tag(<<"OD">>), Description |-> NoTag]]
DocB == [title |-> [present |-> FALSE, has_string |-> FALSE, string |-> <<>>],
         og_title |-> Tag(<<"OG", " ">>),
         desc |-> [description |-> NoTag, og |-> NoTag, Description |-> NoTag]]

\* what requests.get can do: return a response, or raise
Response(status, doc) == [kind |-> "response", status |-> status, doc |-> doc, cls |-> "", msg |-> <<>>]
Raise(cls, msg) == [kind |-> "raise", status |-> 0, doc |-> DocB, cls |-> cls, msg |-> msg]

NoAnswer == [kind |-> "none", status |-> 0, doc |-> DocB, cls |-> "", msg |-> <<>>]

NetSmall ==
    { Response(200, DocA), Response(200, DocB), Response(404, DocB),
      Raise("ReadTimeout", <<>>), Raise("ConnectionError", <<>>),
      Raise("TooManyRedirects", Repeat("x", 101)) }

NetFair ==
    { Response(200, DocA), Response(404, DocB),
      Raise("ReadTimeout", <<>>), Raise("ConnectionError", <<>>),
      Raise("TooManyRedirects", Repeat("x", 101)) }

NetAll ==
    {Response(s, d) : s \in {200, 304}, d \in Docs}
    \cup {Response(404, DocB), Response(503, DocA)}
    \cup {Raise(c, <<>>) : c \in {"ReadTimeout", "ConnectTimeout", "ConnectionError"}}
    \cup {Raise("TooManyRedirects", Repeat("x", n)) : n \in {30, 100, 101}}

\* ------------------------------------------------------------------- fetcher
\* the classes an exception of requests is an instance of
Bases(cls) ==
    CASE cls = "ReadTimeout" -> {"Timeout"}
      [] cls = "ConnectTimeout" -> {"ConnectionError", "Timeout"}
      [] cls = "ConnectionError" -> {"ConnectionError"}
      [] cls = "HTTPError" -> {"HTTPError"}
      [] OTHER -> {}

isinstance(exc, cls) == cls \in Bases(exc.cls)

\* variant of raises_for_status: server errors only
raises_for_status_5xx(status) == 500 <= status /\ status < 600

\* response.raise_for_status(): HTTPError for a 4xx or a 5xx status
raises_for_status(status) == 400 <= status /\ status < 600

\* str(e) of the HTTPError of raise_for_status
http_error_str(status) ==
    <<ToString(status), IF status < 500 THEN " Client Error" ELSE " Server Error">>

\* lines 124-130
extract_title(doc) ==
    IF doc.title.present /\ doc.title.has_string /\ doc.title.string # <<>>
    THEN strip(doc.title.string)
    ELSE IF doc.og_title.present
    THEN (IF doc.og_title.has_content THEN strip(doc.og_title.content) ELSE <<"N/A">>)
    ELSE <<"N/A">>

\* lines 132-141
extract_description(doc) ==
    LET desc_tag == IF doc.desc.description.present THEN doc.desc.description
                    ELSE IF doc.desc.og.present THEN doc.desc.og
                    ELSE doc.desc.Description
    IN  IF desc_tag.present /\ desc_tag.has_content /\ desc_tag.content # <<>>
        THEN strip(desc_tag.content)
        ELSE <<"N/A">>

\* lines 145-152: the except clauses, in order
on_exception(exc) ==
    IF isinstance(exc, "Timeout")
    THEN [title |-> <<"Timeout Error">>, description |-> <<"Request timed out">>]
    ELSE IF isinstance(exc, "ConnectionError")
    THEN [title |-> <<"Connection Error">>, description |-> <<"Failed to connect to URL">>]
    ELSE IF isinstance(exc, "HTTPError")
    THEN [title |-> <<"HTTP Error ", ToString(exc.status)>>,
          description |-> <<"HTTP error occurred: ">> \o exc.msg]
    ELSE [title |-> <<"Fetch Error">>,
          description |-> <<"Error: ">> \o Slice(exc.msg, 100) \o <<"...">>]

\* lines 119-152: what fetch_title_description returns for an answer of
\* requests.get
fetch_result(answer) ==
    IF answer.kind = "raise"
    THEN on_exception(answer)
    ELSE IF raises_for_status(answer.status)
    THEN on_exception([answer EXCEPT !.cls = "HTTPError", !.msg = http_error_str(answer.status)])
    ELSE [title |-> extract_title(answer.doc), description |-> extract_description(answer.doc)]

\* line 110
invalid_result == [title |-> <<"Invalid URL">>, description |-> <<"Invalid URL format">>]

\* variant of make_entry: the Title column is filled from the sender
make_entry_sender_title(url_data, result) ==
    [Sender |-> url_data.sender, URL |-> url_data.url, Title |-> <<url_data.sender>>,
     Description |-> result.description, Date |-> url_data.datetime.date,
     Time |-> url_data.datetime.time, Line_Number |-> url_data.line_num,
     Original_Line |-> url_data.original_line]

\* lines 249-260: the entry of a task and its fetch result
make_entry(url_data, result) ==
    [Sender |-> url_data.sender, URL |-> url_data.url, Title |-> result.title,
     Description |-> result.description, Date |-> url_data.datetime.date,
     Time |-> url_data.datetime.time, Line_Number |-> url_data.line_num,
     Original_Line |-> url_data.original_line]

\* variant of append_entry: a task whose request raised leaves no entry
append_entry_skip_errors(es, url_data, result) ==
    IF result.title \in {<<"Timeout Error">>, <<"Connection Error">>, <<"Fetch Error">>}
    THEN es
    ELSE Append(es, make_entry(url_data, result))

\* lines 249 and 242: entries.append(...) and the next iteration
append_entry(es, url_data, result) == Append(es, make_entry(url_data, result))

\* --------------------------------------------------------------------- sort
\* df.sort_values(["Date", "Time"]): ascending, by Date, then by Time
\* the order of two sort keys: the first column that differs decides
tuple_less(a, b) ==
    \E k \in 1..Len(a) : a[k] < b[k] /\ \A m \in 1..(k - 1) : a[m] = b[m]

\* variant of sort_key: sorted by Time alone
sort_key_time_only(e) == e.Time

\* the columns of sort_values, Date then Time
sort_key(e) == e.Date \o e.Time

\* the place of row n in the sorted frame: after the rows with a smaller
\* key and after the earlier rows with the same key (the sort is stable)
rank(df, n) ==
    1 + Cardinality({m \in 1..Len(df) :
                        \/ tuple_less(sort_key(df[m]), sort_key(df[n]))
                        \/ (~tuple_less(sort_key(df[n]), sort_key(df[m])) /\ m < n)})

sort_values(df) ==
    [p \in 1..Len(df) |-> df[CHOOSE n \in 1..Len(df) : rank(df, n) = p]]

\* ------------------------------------------------------------- state machine
\* pc: "parse" (the loop of lines 182-220), "fetch" (the loop of lines
\* 242-263), "done" (main has returned).  line_num: lines parsed so far.
\* i: tasks fetched so far.  inflight: calls of requests.get that have not
\* returned.  gets: the cleaned URL of every GET issued, in order.
\* answers: what requests.get did for each fetched task (NoAnswer: no call).

Start(transcripts) ==
    /\ lines \in transcripts
    /\ pc = "parse"
    /\ line_num = 0
    /\ all_urls = <<>>
    /\ failed_lines = <<>>
    /\ i = 0
    /\ inflight = 0
    /\ entries = <<>>
    /\ df_sorted = <<>>
    /\ gets = <<>>
    /\ answers = <<>>

Init == Start(SeqsUpTo(LineSet, MaxLines))

InitFair == Start(SeqsUpTo(FairLineSet, MaxLines))

InitFetch == Start(SeqsUpTo(FetchLineSet, MaxFetchLines))

\* lines 182-220: one iteration of the parsing loop
ParseLine ==
    /\ pc = "parse"
    /\ line_num < Len(lines)
    /\ LET num == line_num + 1
           line == strip_line(lines[num])
           dt == parse_datetime(line.date, line.time)
       IN  /\ line_num' = num
           /\ IF line.len # 0 /\ re_match(line) /\ has_links(findall(line))
              THEN IF dt.ok
                   THEN /\ all_urls' = all_urls \o url_tasks(line, num, dt)
                        /\ UNCHANGED failed_lines
                   ELSE /\ failed_lines' = record_failure(failed_lines, line, num, dt.error)
                        /\ UNCHANGED all_urls
              ELSE UNCHANGED <<all_urls, failed_lines>>
    /\ UNCHANGED <<lines, pc, i, inflight, entries, df_sorted, gets, answers>>

\* lines 222-240: the end of the parsing loop; main returns when there is
\* no URL
ParseDone ==
    /\ pc = "parse"
    /\ line_num = Len(lines)
    /\ pc' = IF all_urls = <<>> THEN "done" ELSE "fetch"
    /\ UNCHANGED <<lines, line_num, all_urls, failed_lines, i, inflight, entries,
                   df_sorted, gets, answers>>

\* variant of idle: the next fetch starts without waiting for the last
idle_never_waits(n) == TRUE

\* line 247: the call of fetch_title_description is synchronous, the next
\* task starts when the call has returned
idle(n) == n = 0

\* lines 105-110 and 249-260: a task whose cleaned URL has no scheme or no
\* host gets the Invalid URL result without a request
FetchInvalid ==
    /\ pc = "fetch"
    /\ i < Len(all_urls)
    /\ idle(inflight)
    /\ is_invalid(rstrip(all_urls[i + 1].url))
    /\ entries' = append_entry(entries, all_urls[i + 1], invalid_result)
    /\ answers' = Append(answers, NoAnswer)
    /\ i' = i + 1
    /\ UNCHANGED <<lines, pc, line_num, all_urls, failed_lines, inflight, df_sorted, gets>>

\* lines 105-119: the GET for the cleaned URL of the next task is issued
FetchStart ==
    /\ pc = "fetch"
    /\ i < Len(all_urls)
    /\ idle(inflight)
    /\ ~is_invalid(rstrip(all_urls[i + 1].url))
    /\ inflight' = inflight + 1
    /\ gets' = Append(gets, rstrip(all_urls[i + 1].url))
    /\ UNCHANGED <<lines, pc, line_num, all_urls, failed_lines, i, entries, df_sorted, answers>>

\* lines 119-152 and 249-260: requests.get returns or raises, the result
\* is computed and the entry is appended
FetchComplete(answer) ==
    /\ pc = "fetch"
    /\ i < Len(all_urls)
    /\ inflight > 0
    /\ inflight' = inflight - 1
    /\ entries' = append_entry(entries, all_urls[i + 1], fetch_result(answer))
    /\ answers' = Append(answers, answer)
    /\ i' = i + 1
    /\ UNCHANGED <<lines, pc, line_num, all_urls, failed_lines, df_sorted, gets>>

Complete == \E answer \in NetSmall : FetchComplete(answer)

CompleteFair == \E answer \in NetFair : FetchComplete(answer)

CompleteAny == \E answer \in NetAll : FetchComplete(answer)

\* lines 265-278: after the last task the entries are sorted and written
Export ==
    /\ pc = "fetch"
    /\ i = Len(all_urls)
    /\ inflight = 0
    /\ df_sorted' = sort_values(entries)
    /\ pc' = "done"
    /\ UNCHANGED <<lines, line_num, all_urls, failed_lines, i, inflight, entries, gets, answers>>

Next == ParseLine \/ ParseDone \/ FetchInvalid \/ FetchStart \/ Complete \/ Export

NextFair == ParseLine \/ ParseDone \/ FetchInvalid \/ FetchStart \/ CompleteFair \/ Export

NextFetch == ParseLine \/ ParseDone \/ FetchInvalid \/ FetchStart \/ CompleteAny \/ Export

\* the whole pipeline, a small set of network answers
Spec == Init /\ [][Next]_vars

\* every step of main terminates (requests.get has a timeout), so the run
\* goes on while a step is possible; transcripts of lines with links, one
\* network answer of each kind
FairSpec == InitFair /\ [][NextFair]_vars /\ WF_vars(NextFair)

\* single-link transcripts, every network answer
SpecFetch == InitFetch /\ [][NextFetch]_vars

\* =================================================================== claims
Count(s, x) == Cardinality({n \in 1..Len(s) : s[n] = x})

\* the task URL with its trailing characters from .,;!? removed: the
\* longest prefix that does not end with one of them
CleanedUrl(u) ==
    LET cuts == {n \in 0..Len(u) : \A m \in (n + 1)..Len(u) : u[m] \in PUNCT}
    IN  SubSeq(u, 1, CHOOSE n \in cuts : \A m \in cuts : n <= m)

CleanedUrls == {CleanedUrl(all_urls[n].url) : n \in 1..Len(all_urls)}

\* the tasks whose fetch has started
Started == 1..Min(i + inflight, Len(all_urls))

C2_InFlightBounded == \A k \in 1..MaxK : inflight <= k

C2_Witness == inflight = 1 /\ i >= 1 /\ Len(all_urls) > MaxK

\* the entry of task n carries the metadata of the task and the result of
\* its own fetch
CarriesTask(n) ==
    /\ entries[n].Sender = all_urls[n].sender
    /\ entries[n].URL = all_urls[n].url
    /\ entries[n].Date = all_urls[n].datetime.date
    /\ entries[n].Time = all_urls[n].datetime.time
    /\ entries[n].Line_Number = all_urls[n].line_num
    /\ entries[n].Original_Line = all_urls[n].original_line

CarriesResult(n) ==
    LET result == IF answers[n] = NoAnswer THEN invalid_result ELSE fetch_result(answers[n])
    IN  entries[n].Title = result.title /\ entries[n].Description = result.description

OneRecordPerTask ==
    /\ Len(entries) = Len(all_urls)
    /\ Len(answers) = Len(all_urls)
    /\ \A n \in 1..Len(all_urls) : CarriesTask(n) /\ CarriesResult(n)

\* C3: no task is dropped: whatever each network call does, enrichment
\* eventually finishes with exactly one record per task, carrying the
\* sender, timestamp, line number and original line of its task and the
\* result of the fetch of that task.
C3_NoTaskDropped == <>(pc = "done" /\ OneRecordPerTask)

C3_Witness ==
    /\ pc = "done"
    /\ Len(entries) >= 3
    /\ OneRecordPerTask
    /\ \E a, b, c \in 1..Len(answers) :
          /\ answers[a].kind = "raise"
          /\ answers[b].kind = "response" /\ answers[b].status = 404
          /\ answers[c].kind = "response" /\ answers[c].status = 200

Processed == 1..line_num

TasksOfLine(n) == {k \in 1..Len(all_urls) : all_urls[k].line_num = n}

FailuresOfLine(n) == {k \in 1..Len(failed_lines) : failed_lines[k].line_num = n}

C7_SkippedLinesLeaveNothing ==
    \A n \in Processed :
        (lines[n].shape # "msg" \/ ~re_match(lines[n]) \/ lines[n].links = <<>>) =>
            TasksOfLine(n) = {} /\ FailuresOfLine(n) = {}

C7_Witness ==
    /\ line_num = Len(lines)
    /\ \E n, m \in Processed :
          /\ lines[n] = LBadNo
          /\ lines[m].shape = "blank"
          /\ TasksOfLine(n) = {} /\ FailuresOfLine(n) = {}

\* C8: a line with a 24-hour time and no AM/PM marker whose message has a
\* URL is recognized: it gives a task or a parse failure, it is not
\* skipped.
C8_24HourRecognized ==
    \A n \in Processed :
        (lines[n].shape = "msg" /\ lines[n].time.mer = "none" /\ lines[n].links # <<>>) =>
            TasksOfLine(n) # {} \/ FailuresOfLine(n) # {}

\* (Date, Time) of a is less than or equal to that of b
DateTimeLeq(a, b) ==
    LET ka == <<a.Date[1], a.Date[2], a.Date[3], a.Time[1], a.Time[2]>>
        kb == <<b.Date[1], b.Date[2], b.Date[3], b.Time[1], b.Time[2]>>
    IN  \/ ka = kb
        \/ \E k \in 1..5 : ka[k] < kb[k] /\ \A m \in 1..(k - 1) : ka[m] = kb[m]

\* C9: the sequence handed to the writer is a permutation of the entries
\* and is in non-decreasing order of (Date, Time).
C9_SortedPermutation ==
    pc = "done" =>
        /\ Len(df_sorted) = Len(entries)
        /\ \A e \in Range(entries) \cup Range(df_sorted) : Count(df_sorted, e) = Count(entries, e)
        /\ \A n \in 1..(Len(df_sorted) - 1) : DateTimeLeq(df_sorted[n], df_sorted[n + 1])

C9_Witness ==
    /\ pc = "done"
    /\ Len(entries) >= 3
    /\ df_sorted # entries
    /\ \E n \in 1..(Len(entries) - 1) : ~DateTimeLeq(entries[n], entries[n + 1])
    /\ \E n \in 1..(Len(entries) - 1) : entries[n].Date = entries[n + 1].Date

\* the title the resolution order gives: the trimmed text of the title
\* element when it is present and not empty after trimming, else the
\* content of og:title when the tag is present, else "N/A"
ResolvedTitle(doc) ==
    IF doc.title.present /\ doc.title.has_string /\ strip(doc.title.string) # <<>>
    THEN strip(doc.title.string)
    ELSE IF doc.og_title.present /\ doc.og_title.has_content
    THEN strip(doc.og_title.content)
    ELSE <<"N/A">>

\* C10: on a 2xx response the title is the trimmed text of the title
\* element when present and not empty after trimming, else the content of
\* og:title, else "N/A"; a whitespace-only title element falls through to
\* og:title.
C10_TitleResolution ==
    \A n \in 1..Len(entries) :
        (answers[n].kind = "response" /\ answers[n].status \in 200..299) =>
            entries[n].Title = ResolvedTitle(answers[n].doc)

====
